---------------------------- MODULE Spec2Model ----------------------------
(***************************************************************************)
(* Model of the dependency-light HTML table loader (html_table_parser.py,  *)
(* get_data.py) and of the term-range parser (presidency.py).              *)
(*                                                                         *)
(* Text is a sequence of one-character strings.  An optional value         *)
(* (Python None or a list) is a sequence of length 0 (None) or 1 (the      *)
(* value).  A document is the sequence of start-tag, end-tag and text      *)
(* events HTMLParser.feed hands to the handlers.                           *)
(***************************************************************************)
EXTENDS Integers, Sequences, FiniteSets, TLC

VARIABLES pc, outcome, requests, doc, open,
          tables, in_table, current_header, current_rows, current_row,
          current_cell, frames,
          term, term_src, term_start, term_end

vars == <<pc, outcome, requests, doc, open,
          tables, in_table, current_header, current_rows, current_row,
          current_cell, frames,
          term, term_src, term_start, term_end>>

parserVars == <<tables, in_table, current_header, current_rows, current_row,
                current_cell>>
termVars == <<term, term_src, term_start, term_end>>

----------------------------------------------------------------------------
(* Bounds of the model. *)

\* events of an arbitrary (possibly malformed) document
MaxEvents == 4
\* elements and text/br events of a balanced document, and its table nesting
MaxNodes == 7
MaxDepth == 2

----------------------------------------------------------------------------
(* Optional values and text. *)

None == <<>>
Some(x) == <<x>>
IsNone(o) == o = <<>>
Get(o) == o[1]
\* Python's "o or []"
OrEmpty(o) == IF IsNone(o) THEN <<>> ELSE Get(o)

NL == "\n"
IsSpace(c) == c \in {" ", NL}

RECURSIVE LStrip(_)
LStrip(s) == IF s = <<>> THEN s
             ELSE IF IsSpace(Head(s)) THEN LStrip(Tail(s)) ELSE s

RECURSIVE RStrip(_)
RStrip(s) == IF s = <<>> THEN s
             ELSE IF IsSpace(s[Len(s)]) THEN RStrip(SubSeq(s, 1, Len(s) - 1)) ELSE s

\* str.strip()
Strip(s) == RStrip(LStrip(s))

\* "".join(chunks)
RECURSIVE Join(_)
Join(chunks) == IF chunks = <<>> THEN <<>> ELSE Head(chunks) \o Join(Tail(chunks))

----------------------------------------------------------------------------
(* Events. *)

Tags == {"table", "tr", "td", "th", "br"}
CellTags == {"td", "th"}
DataChunks == { <<"a">>, <<" ", "b">> }

StartEv(tag) == [k |-> "start", tag |-> tag, data |-> <<>>]
EndEv(tag) == [k |-> "end", tag |-> tag, data |-> <<>>]
DataEv(d) == [k |-> "data", tag |-> "", data |-> d]

\* the elements open after event e, innermost last, given those open before
\* it (br is a void element; an end tag closes the innermost element if it
\* is the one it names)
OpenAfter(st, e) ==
    IF e.k = "start" /\ e.tag # "br" THEN Append(st, e.tag)
    ELSE IF e.k = "end" /\ st # <<>> /\ st[Len(st)] = e.tag
         THEN SubSeq(st, 1, Len(st) - 1)
         ELSE st

\* HTMLParser.feed hands event e to its handler
Fed(e) ==
    /\ doc' = Append(doc, e)
    /\ open' = OpenAfter(open, e)

----------------------------------------------------------------------------
(* SimpleHTMLTableParser. *)

ParserInit ==
    /\ tables = <<>>
    /\ in_table = FALSE
    /\ current_header = None
    /\ current_rows = None
    /\ current_row = None
    /\ current_cell = None

\* An exception leaves the handler (and feed, and the scraper) at once.
Raise(exc) ==
    /\ outcome' = exc
    /\ pc' = "done"

Continue == UNCHANGED <<pc, outcome>>

\* faulty variant of OpensTable: a table start tag is honoured also while a
\* table is open
OpensTableAlways(tag) == tag = "table"

\* tag == "table" and not self._in_table
OpensTable(tag) == tag = "table" /\ ~in_table

\* faulty variant of ClosesTable: a table end tag is honoured also while no
\* table is open
ClosesTableAlways(tag) == tag = "table"

\* tag == "table" and self._in_table
ClosesTable(tag) == tag = "table" /\ in_table

\* faulty variant of HeaderUnset: "not self._current_header", which also
\* holds when the header captured so far is an empty row
HeaderFalsy == IsNone(current_header) \/ Get(current_header) = <<>>

\* self._current_header is None
HeaderUnset == IsNone(current_header)

HandleStarttag(tag) ==
    /\ pc = "feed"
    /\ Fed(StartEv(tag))
    /\ Continue
    /\ UNCHANGED <<requests, frames, tables, termVars>>
    /\ IF OpensTable(tag)
       THEN /\ in_table' = TRUE
            /\ current_header' = None
            /\ current_rows' = Some(<<>>)
            /\ UNCHANGED <<current_row, current_cell>>
       ELSE IF in_table /\ tag = "tr"
       THEN /\ current_row' = Some(<<>>)
            /\ UNCHANGED <<in_table, current_header, current_rows, current_cell>>
       ELSE IF in_table /\ tag \in CellTags
       THEN /\ current_cell' = Some(<<>>)
            /\ UNCHANGED <<in_table, current_header, current_rows, current_row>>
       ELSE IF in_table /\ tag = "br" /\ ~IsNone(current_cell)
       THEN /\ current_cell' = Some(Append(Get(current_cell), <<NL>>))
            /\ UNCHANGED <<in_table, current_header, current_rows, current_row>>
       ELSE UNCHANGED parserVars

HandleEndtag(tag) ==
    /\ pc = "feed"
    /\ Fed(EndEv(tag))
    /\ UNCHANGED <<requests, frames, termVars>>
    /\ IF ClosesTable(tag)
       THEN /\ tables' = Append(tables, <<OrEmpty(current_header), OrEmpty(current_rows)>>)
            /\ in_table' = FALSE
            /\ current_header' = None
            /\ current_rows' = None
            /\ UNCHANGED <<current_row, current_cell>>
            /\ Continue
       ELSE IF in_table /\ tag \in CellTags /\ ~IsNone(current_cell)
       THEN IF IsNone(current_row)
            THEN \* None.append(text)
                 /\ Raise("AttributeError")
                 /\ UNCHANGED parserVars
            ELSE /\ current_row' = Some(Append(Get(current_row), Strip(Join(Get(current_cell)))))
                 /\ current_cell' = None
                 /\ UNCHANGED <<tables, in_table, current_header, current_rows>>
                 /\ Continue
       ELSE IF in_table /\ tag = "tr" /\ ~IsNone(current_row)
       THEN IF HeaderUnset
            THEN /\ current_header' = current_row
                 /\ current_row' = None
                 /\ UNCHANGED <<tables, in_table, current_rows, current_cell>>
                 /\ Continue
            ELSE IF IsNone(current_rows)
            THEN \* None.append(row)
                 /\ Raise("AttributeError")
                 /\ UNCHANGED parserVars
            ELSE /\ current_rows' = Some(Append(Get(current_rows), Get(current_row)))
                 /\ current_row' = None
                 /\ UNCHANGED <<tables, in_table, current_header, current_cell>>
                 /\ Continue
       ELSE /\ UNCHANGED parserVars
            /\ Continue

HandleData(data) ==
    /\ pc = "feed"
    /\ Fed(DataEv(data))
    /\ Continue
    /\ UNCHANGED <<requests, frames, tables, termVars>>
    /\ IF in_table /\ ~IsNone(current_cell)
       THEN /\ current_cell' = Some(Append(Get(current_cell), data))
            /\ UNCHANGED <<in_table, current_header, current_rows, current_row>>
       ELSE UNCHANGED <<in_table, current_header, current_rows, current_row, current_cell>>


----------------------------------------------------------------------------
(* Header and row normalisation, and the frames the scraper builds. *)

Max(a, b) == IF a >= b THEN a ELSE b
Min(a, b) == IF a <= b THEN a ELSE b

\* value.replace("*", " ")
ReplaceStar(s) == [i \in 1..Len(s) |-> IF s[i] = "*" THEN " " ELSE s[i]]

\* re.sub(r"\s+", " ", s)
RECURSIVE Collapse(_)
Collapse(s) == IF s = <<>> THEN <<>>
               ELSE IF IsSpace(Head(s)) THEN <<" ">> \o Collapse(LStrip(s))
               ELSE <<Head(s)>> \o Collapse(Tail(s))

normalize_header(value) == Strip(Collapse(ReplaceStar(value)))

\* [""] * n
EmptyCells(n) == [i \in 1..n |-> <<>>]

\* padded[:width], for width >= 0
Prefix(s, width) == SubSeq(s, 1, Min(width, Len(s)))

\* faulty variant of NormalizeRow: "return padded", no truncation
NormalizeRowPadOnly(row, width) ==
    row \o EmptyCells(Max(0, width - Len(row)))

\* _normalize_row
NormalizeRow(row, width) ==
    LET padded == row \o EmptyCells(Max(0, width - Len(row)))
    IN  Prefix(padded, width)

\* any(cell.strip() for cell in row)
HasContent(row) == \E i \in 1..Len(row) : Strip(row[i]) # <<>>

\* one DataFrame: the columns and the rows built from one (header, rows) pair
Frame(table) ==
    LET header == table[1]
        rows == table[2]
        columns == [i \in 1..Len(header) |-> normalize_header(header[i])]
        kept == SelectSeq(rows, HasContent)
    IN  [columns |-> columns,
         rows |-> [i \in 1..Len(kept) |-> NormalizeRow(kept[i], Len(columns))]]

\* html_table_parser.py: one frame per table
Frames(ts) == [i \in 1..Len(ts) |-> Frame(ts[i])]

\* get_data.py: the frame of parser.tables[0] alone
FirstFrame(ts) == Frame(ts[1])

----------------------------------------------------------------------------
(* read_html_tables and the built-in scraper. *)

\* pd.read_html(url) fetches the URL, parses it and returns its tables.
ReadHtmlReturns ==
    /\ pc = "read_html"
    /\ requests' = requests + 1
    /\ outcome' = "ok_pandas"
    /\ pc' = "done"
    /\ UNCHANGED <<doc, open, frames, parserVars, termVars>>

\* pd.read_html(url) finds no parser library: ImportError, before any fetch.
ReadHtmlImportError ==
    /\ pc = "read_html"
    /\ pc' = "urlopen"
    /\ UNCHANGED <<outcome, requests, doc, open, frames, parserVars, termVars>>

\* pd.read_html(url) fetches the URL and finds no table in it: ValueError.
ReadHtmlValueError ==
    /\ pc = "read_html"
    /\ requests' = requests + 1
    /\ pc' = "urlopen"
    /\ UNCHANGED <<outcome, doc, open, frames, parserVars, termVars>>

\* pd.read_html(url) fails to fetch the URL: URLError, which is not caught.
ReadHtmlFetchFails ==
    /\ pc = "read_html"
    /\ requests' = requests + 1
    /\ Raise("URLError")
    /\ UNCHANGED <<doc, open, frames, parserVars, termVars>>

\* urlopen(req) raises URLError: RuntimeError to the caller.
UrlopenFails ==
    /\ pc = "urlopen"
    /\ requests' = requests + 1
    /\ Raise("RuntimeError")
    /\ UNCHANGED <<doc, open, frames, parserVars, termVars>>

\* urlopen(req) returns the page; a fresh parser is fed with it.
UrlopenReturns ==
    /\ pc = "urlopen"
    /\ requests' = requests + 1
    /\ pc' = "feed"
    /\ UNCHANGED <<outcome, doc, open, frames, parserVars, termVars>>

\* parser.feed(html) returned: no tables is a ValueError, else the frames.
FeedReturns ==
    /\ pc = "feed"
    /\ IF tables = <<>>
       THEN /\ Raise("ValueError")
            /\ UNCHANGED frames
       ELSE /\ frames' = Frames(tables)
            /\ outcome' = "ok"
            /\ pc' = "done"
    /\ UNCHANGED <<requests, doc, open, parserVars, termVars>>

----------------------------------------------------------------------------
(* Documents: arbitrary event sequences, and balanced ones. *)

Count(d, P(_)) == Cardinality({i \in 1..Len(d) : P(d[i])})

IsTableStart(e) == e = StartEv("table")
IsCellStart(e) == e.k = "start" /\ e.tag \in CellTags
IsText(e) == e.k = "data" \/ e = StartEv("br")

Top(st) == IF st = <<>> THEN "" ELSE st[Len(st)]
TableDepth(st) == Cardinality({i \in 1..Len(st) : st[i] = "table"})

IsNode(e) == (e.k = "start" /\ e.tag # "br") \/ IsText(e)

\* e may follow d in a balanced document whose open elements are st
Follows(st, d, e) ==
    \/ /\ e.k = "end"
       /\ e.tag # "br"
       /\ Top(st) = e.tag
    \/ /\ Count(d, IsNode) < MaxNodes
       /\ \/ /\ e = StartEv("table")
             /\ Top(st) \in {"", "table", "td", "th"}
             /\ TableDepth(st) < MaxDepth
             /\ st = <<>> => Count(d, IsTableStart) = 0
          \/ /\ e = StartEv("tr")
             /\ Top(st) = "table"
          \/ /\ IsCellStart(e)
             /\ Top(st) = "tr"
          \/ /\ IsText(e)
             /\ Top(st) \in CellTags

----------------------------------------------------------------------------
(* presidency.py: the term-range parser. *)

EnDash == "EN DASH"
EmDash == "EM DASH"
Hyphen == "-"
Dagger == "DAGGER"

DigitChars == <<"0", "1", "2", "3", "4", "5", "6", "7", "8", "9">>
IsDigit(c) == \E i \in 1..10 : DigitChars[i] = c
DigitValue(c) == (CHOOSE i \in 1..10 : DigitChars[i] = c) - 1

\* int(number)
RECURSIVE ToInt(_)
ToInt(run) == IF run = <<>> THEN 0
              ELSE ToInt(SubSeq(run, 1, Len(run) - 1)) * 10 + DigitValue(run[Len(run)])

\* re.findall(r"\d+", fragment)[-1]; the empty sequence if there is no digit
LastDigitRun(fragment) ==
    LET ds == {i \in 1..Len(fragment) : IsDigit(fragment[i])}
    IN  IF ds = {} THEN <<>>
        ELSE LET hi == CHOOSE i \in ds : \A j \in ds : j <= i
                 lo == CHOOSE i \in 1..hi :
                          /\ \A j \in i..hi : j \in ds
                          /\ i = 1 \/ (i - 1) \notin ds
             IN  SubSeq(fragment, lo, hi)

\* faulty variant of NormalizeYearFragment: no century rollover
NormalizeYearFragmentNoRollover(fragment, anchor_year) ==
    LET number == LastDigitRun(fragment)
    IN  IF fragment = <<>> \/ number = <<>> THEN None
        ELSE IF Len(number) = 4 THEN Some(ToInt(number))
        ELSE IF Len(number) = 2 /\ ~IsNone(anchor_year) /\ Get(anchor_year) # 0
             THEN Some((Get(anchor_year) \div 100) * 100 + ToInt(number))
        ELSE Some(ToInt(number))

\* _normalize_year_fragment; anchor_year is None or a year
NormalizeYearFragment(fragment, anchor_year) ==
    LET number == LastDigitRun(fragment)
    IN  IF fragment = <<>> \/ number = <<>> THEN None
        ELSE IF Len(number) = 4 THEN Some(ToInt(number))
        ELSE IF Len(number) = 2 /\ ~IsNone(anchor_year) /\ Get(anchor_year) # 0
             THEN LET century == (Get(anchor_year) \div 100) * 100
                      candidate == century + ToInt(number)
                  IN  IF candidate < Get(anchor_year)
                      THEN Some(candidate + 100) ELSE Some(candidate)
        ELSE Some(ToInt(number))

\* re.sub(r"[\*†]", "", term)
RemoveMarkers(s) == SelectSeq(s, LAMBDA c : c \notin {"*", Dagger})

\* .replace(em dash, en dash).replace("-", en dash)
NormalizeDashes(s) == [i \in 1..Len(s) |-> IF s[i] \in {EmDash, Hyphen} THEN EnDash ELSE s[i]]

\* cleaned.split(en dash)
RECURSIVE Split(_)
Split(s) ==
    LET ps == {i \in 1..Len(s) : s[i] = EnDash}
    IN  IF ps = {} THEN <<s>>
        ELSE LET i == CHOOSE p \in ps : \A q \in ps : p <= q
             IN  <<SubSeq(s, 1, i - 1)>> \o Split(SubSeq(s, i + 1, Len(s)))

\* [p.strip() for p in pieces if p.strip()]
Parts(s) ==
    LET pieces == Split(s)
        stripped == [i \in 1..Len(pieces) |-> Strip(pieces[i])]
    IN  SelectSeq(stripped, LAMBDA q : q # <<>>)

\* _split_term_range: <<start_year, end_year>>
SplitTermRange(t) ==
    LET parts == Parts(NormalizeDashes(RemoveMarkers(t)))
    IN  IF parts = <<>> THEN <<None, None>>
        ELSE LET start_year == NormalizeYearFragment(parts[1], None)
                 end_year == IF Len(parts) > 1
                             THEN NormalizeYearFragment(parts[2], start_year)
                             ELSE start_year
             IN  <<start_year, end_year>>

\* term_bounds = df["term_of_office"].apply(_split_term_range)
ApplySplitTermRange ==
    /\ pc = "term"
    /\ term_start' = SplitTermRange(term)[1]
    /\ term_end' = SplitTermRange(term)[2]
    /\ pc' = "term_done"
    /\ UNCHANGED <<term, term_src, outcome, requests, doc, open, frames, parserVars>>

NoSrc == [sy |-> -1, ek |-> "none", ev |-> 0]

NoTerm ==
    /\ term = <<>>
    /\ term_src = NoSrc
    /\ term_start = None
    /\ term_end = None

(* Term strings: a start part, and possibly a separator and an end part. *)

\* n as w zero-padded decimal digits
RECURSIVE Render(_, _)
Render(n, w) == IF w = 0 THEN <<>>
                ELSE Render(n \div 10, w - 1) \o <<DigitChars[(n % 10) + 1]>>

Years == {0, 99, 100, 1800, 1841, 1897, 1899, 1900, 1901, 1999, 2000, 2001, 9901, 9999}
TwoDigits == {0, 1, 41, 96, 97, 98, 99}
Seps == { <<EnDash>>, <<EmDash>>, <<Hyphen>>, <<" ", EnDash, " ">> }
StartPost == { <<>>, <<"*">> }
EndPre == { <<>>, <<"'">>, <<"1", "/">> }
EndPost == { <<>>, <<Dagger>>, <<"-">> }

\* src.sy: the start part's year (-1: it has no digit); src.ek: the end part
\* is absent ("none"), has no digit ("empty"), or ends in a two-digit or
\* four-digit run of value src.ev
TermSrcs ==
    [sy : Years \cup {-1}, ek : {"none", "empty"}, ev : {0}]
    \cup [sy : Years \cup {-1}, ek : {"two"}, ev : TwoDigits]
    \cup [sy : Years \cup {-1}, ek : {"four"}, ev : {1901, 2001}]

StartText(src) == IF src.sy < 0 THEN <<"c">> ELSE Render(src.sy, 4)
EndText(src) == IF src.ek = "two" THEN Render(src.ev, 2)
                ELSE IF src.ek = "four" THEN Render(src.ev, 4)
                ELSE <<"c">>

InitTerm ==
    /\ pc = "term"
    /\ outcome = "none"
    /\ requests = 0
    /\ doc = <<>>
    /\ open = <<>>
    /\ frames = <<>>
    /\ ParserInit
    /\ term_src \in TermSrcs
    /\ \E sp \in StartPost, sep \in Seps, pre \in EndPre, post \in EndPost :
          term = IF term_src.ek = "none"
                 THEN StartText(term_src) \o sp
                 ELSE StartText(term_src) \o sp \o sep \o pre \o EndText(term_src) \o post
    /\ term_start = None
    /\ term_end = None

NextTerm == ApplySplitTermRange

SpecTerm == InitTerm /\ [][NextTerm]_vars

----------------------------------------------------------------------------
(* Specifications. *)

Init ==
    /\ pc = "read_html"
    /\ outcome = "none"
    /\ requests = 0
    /\ doc = <<>>
    /\ open = <<>>
    /\ frames = <<>>
    /\ ParserInit
    /\ NoTerm

\* any event may follow any other
Next ==
    \/ ReadHtmlReturns
    \/ ReadHtmlImportError
    \/ ReadHtmlValueError
    \/ ReadHtmlFetchFails
    \/ UrlopenFails
    \/ UrlopenReturns
    \/ \E tag \in Tags : Len(doc) < MaxEvents /\ HandleStarttag(tag)
    \/ \E tag \in Tags : Len(doc) < MaxEvents /\ HandleEndtag(tag)
    \/ \E data \in DataChunks : Len(doc) < MaxEvents /\ HandleData(data)
    \/ FeedReturns

Spec == Init /\ [][Next]_vars

\* The built-in scraper called on a page that is a balanced document.
InitScraper ==
    /\ pc = "urlopen"
    /\ outcome = "none"
    /\ requests = 0
    /\ doc = <<>>
    /\ open = <<>>
    /\ frames = <<>>
    /\ ParserInit
    /\ NoTerm

NextBalanced ==
    \/ UrlopenFails
    \/ UrlopenReturns
    \/ \E tag \in Tags : Follows(open, doc, StartEv(tag)) /\ HandleStarttag(tag)
    \/ \E tag \in Tags : Follows(open, doc, EndEv(tag)) /\ HandleEndtag(tag)
    \/ \E data \in DataChunks : Follows(open, doc, DataEv(data)) /\ HandleData(data)
    \/ open = <<>> /\ FeedReturns

SpecBalanced == InitScraper /\ [][NextBalanced]_vars

----------------------------------------------------------------------------
(* Properties of the extractor on arbitrary event sequences (Spec). *)

Scanned == pc = "done" /\ outcome \in {"ok", "ValueError", "AttributeError"}

\* C1: feeding any finite sequence of start-tag, end-tag and text events to
\* the extractor completes without raising an error.
C1_NeverRaises == outcome # "AttributeError"

\* C2: when the scan emitted zero tables the built-in scraper ends in
\* ValueError ("no tables found"), and when it emitted at least one table it
\* returns successfully, with one frame per table.
C2_NoTablesIsValueError ==
    Scanned =>
        /\ tables = <<>> => outcome = "ValueError"
        /\ tables # <<>> => outcome = "ok" /\ Len(frames) = Len(tables)

\* C7: one invocation of the table loader issues a single HTTP GET for the
\* URL, on every path.
C7_SingleGet == requests <= 1

\* C9: after every table end tag the extractor is outside any table with no
\* row buffer and no cell buffer open, and a table start tag received outside
\* a table enters the table with no row and no cell open (so nothing read
\* before the start tag can reach the table).
C9_TableEndResets ==
    [][/\ doc' = Append(doc, EndEv("table"))
          => ~in_table' /\ IsNone(current_row') /\ IsNone(current_cell')
       /\ (doc' = Append(doc, StartEv("table")) /\ ~in_table)
          => /\ in_table'
             /\ IsNone(current_header') /\ current_rows' = Some(<<>>)
             /\ IsNone(current_row') /\ IsNone(current_cell')]_vars

\* An end tag that matches nothing open in the extractor.
Unmatched(tag) ==
    \/ ~in_table
    \/ tag = "tr" /\ IsNone(current_row)
    \/ tag \in CellTags /\ IsNone(current_cell)

\* C10: an unmatched end tag (table outside any table, tr with no row buffer
\* open, td/th with no cell buffer open, any end tag outside a table) leaves
\* the whole extractor state unchanged and raises nothing.
C10_UnmatchedEndIsNoop ==
    [][\A tag \in Tags :
          (doc' = Append(doc, EndEv(tag)) /\ Unmatched(tag))
          => UNCHANGED <<parserVars, pc, outcome>>]_vars

\* an end tag arrived with nothing to match, inside and outside a table
C10_Witness ==
    /\ Len(doc) = 4
    /\ doc[1] = EndEv("td")
    /\ doc[2] = StartEv("table")
    /\ doc[3] = StartEv("tr")
    /\ doc[4] = EndEv("th")
    /\ in_table /\ current_row = Some(<<>>) /\ tables = <<>>
    /\ pc = "feed"

----------------------------------------------------------------------------
(* The content of a document, read off its events by position. *)

MinOf(S) == CHOOSE m \in S : \A x \in S : m <= x

RECURSIVE Sorted(_)
Sorted(S) == IF S = {} THEN <<>>
             ELSE <<MinOf(S)>> \o Sorted(S \ {MinOf(S)})

\* the first position after i whose event satisfies P (Len(d) + 1 if none)
NextPos(d, i, P(_)) ==
    MinOf({j \in (i + 1)..Len(d) : P(d[j])} \cup {Len(d) + 1})

IsRowEnd(e) == e = EndEv("tr")
IsCellEnd(e) == e.k = "end" /\ e.tag \in CellTags
IsTableEnd(e) == e = EndEv("table")
TextOf(e) == IF e.k = "data" THEN e.data ELSE IF e = StartEv("br") THEN <<NL>> ELSE <<>>

RECURSIVE TextBetween(_, _, _)
TextBetween(d, lo, hi) ==
    IF lo > hi THEN <<>> ELSE TextOf(d[lo]) \o TextBetween(d, lo + 1, hi)

\* the trimmed text of the cell opened at position j
CellAt(d, j) == Strip(TextBetween(d, j + 1, NextPos(d, j, IsCellEnd) - 1))

\* the cells, in document order, of the row opened at position i
RowAt(d, i) ==
    LET cs == Sorted({j \in (i + 1)..(NextPos(d, i, IsRowEnd) - 1) : IsCellStart(d[j])})
    IN  [n \in 1..Len(cs) |-> CellAt(d, cs[n])]

\* the rows of d opened after position p, in document order
RowsAfter(d, p) ==
    LET rs == Sorted({i \in (p + 1)..Len(d) : d[i] = StartEv("tr")})
    IN  [n \in 1..Len(rs) |-> RowAt(d, rs[n])]

AllRows(d) == RowsAfter(d, 0)

\* d is a complete, balanced document holding one table and no nested one
WellFormedSingle(d) ==
    /\ d # <<>>
    /\ open = <<>>
    /\ Count(d, IsTableStart) = 1

\* d holds one outer table and, inside it, one nested table
SingleNested(d) == Count(d, IsTableStart) = 2

----------------------------------------------------------------------------
(* Properties of the scraper on balanced documents (SpecBalanced). *)

\* a row with at least one cell, all of them empty after trimming
AllEmpty(row) == row # <<>> /\ \A i \in 1..Len(row) : Strip(row[i]) = <<>>

\* C3: no row of an output Parsed Table (after filtering and padding or
\* truncation to the header width) has all of its cells empty after trimming.
C3_NoEmptyOutputRow ==
    (pc = "done" /\ outcome = "ok") =>
        /\ \A t \in 1..Len(frames) : \A r \in 1..Len(frames[t].rows) :
              ~AllEmpty(frames[t].rows[r])
        /\ \A r \in 1..Len(FirstFrame(tables).rows) :
              ~AllEmpty(FirstFrame(tables).rows[r])

\* C4: a normalized row has exactly as many cells as the header: a shorter
\* raw row is the raw row followed by empty cells, a longer one is its first
\* cells; so every row of every output table is as wide as its columns.
C4_RowWidth ==
    /\ \A t \in 1..Len(tables) : \A r \in 1..Len(tables[t][2]) :
          LET w == Len(tables[t][1])
              row == tables[t][2][r]
              n == NormalizeRow(row, w)
          IN  /\ Len(n) = w
              /\ \A i \in 1..w : n[i] = IF i <= Len(row) THEN row[i] ELSE <<>>
    /\ \A t \in 1..Len(frames) : \A r \in 1..Len(frames[t].rows) :
          Len(frames[t].rows[r]) = Len(frames[t].columns)

\* a table was built whose data row is wider than its one-column header
C4_Witness ==
    /\ pc = "done" /\ outcome = "ok"
    /\ Len(tables) = 1
    /\ Len(tables[1][1]) = 1
    /\ Len(tables[1][2]) = 1
    /\ Len(tables[1][2][1]) = 2
    /\ frames[1].rows = << <<tables[1][2][1][1]>> >>

\* C5: a well-formed single-table document with n >= 1 rows yields exactly
\* one pair: the header is the trimmed cells of the first row, the rows are
\* the other n-1 rows, rows and cells in document order.
C5_OrderPreserved ==
    (WellFormedSingle(doc) /\ AllRows(doc) # <<>>) =>
        tables = << <<Head(AllRows(doc)), Tail(AllRows(doc))>> >>

\* a two-row table whose header cell was trimmed and whose data row has text
C5_Witness ==
    /\ WellFormedSingle(doc)
    /\ Len(AllRows(doc)) = 2
    /\ \E i \in 1..Len(doc) : doc[i] = DataEv(<<" ", "b">>)
    /\ tables = << << <<<<"b">>>>, << <<<<"a">>>> >> >> >>

\* the position of the first table end tag of d (the nested table's)
FirstTableEnd(d) == NextPos(d, 0, IsTableEnd)

InTable(t, row) == row = t[1] \/ \E r \in 1..Len(t[2]) : t[2][r] = row

\* C8 as stated: a document whose single outer table encloses a nested table
\* yields exactly one Parsed Table, emitted at the outer table's end tag (not
\* at the nested one's), and the outer rows that follow the nested table are
\* in it.
C8_OuterTableTracked ==
    SingleNested(doc) =>
        /\ (Count(doc, IsTableEnd) = 1 /\ open # <<>>) => (in_table /\ tables = <<>>)
        /\ open = <<>> =>
              /\ Len(tables) = 1
              /\ \A r \in 1..Len(RowsAfter(doc, FirstTableEnd(doc))) :
                    InTable(tables[1], RowsAfter(doc, FirstTableEnd(doc))[r])

\* C8 as the code has it: a table start tag received while a table is open
\* changes nothing; for a document whose single outer table encloses a
\* nested table, nothing is emitted before the first table end tag (the
\* nested table's), that end tag emits the one Parsed Table and leaves the
\* table, and no later event (the outer rows that follow, the outer end tag)
\* changes the Table Collection.
C8_NestedStartIgnored ==
    /\ [](SingleNested(doc) =>
            /\ Count(doc, IsTableEnd) = 0 => (in_table /\ tables = <<>>)
            /\ Count(doc, IsTableEnd) >= 1 => (~in_table /\ Len(tables) = 1))
    /\ [][(in_table /\ doc' = Append(doc, StartEv("table")))
            => UNCHANGED parserVars]_vars
    /\ [][(SingleNested(doc') /\ Count(doc, IsTableEnd) >= 1)
            => tables' = tables]_vars

\* the scraper finished a document whose nested table follows a captured
\* header and is followed by an outer row holding text
C8_Witness ==
    /\ pc = "done"
    /\ SingleNested(doc)
    /\ open = <<>>
    /\ doc[2] = StartEv("tr")
    /\ RowsAfter(doc, FirstTableEnd(doc)) = << << <<"a">> >> >>
    /\ tables = << << <<>>, <<>> >> >>

----------------------------------------------------------------------------
(* Properties of the term-range parser (SpecTerm). *)

\* C6: for a two-part term whose start part is a four-digit year Y and whose
\* end part's last digit run is a two-digit number d, term_start = Y and
\* term_end = (Y \div 100) * 100 + d, plus 100 when that is less than Y:
\* the one year of Y..Y+99 whose last two digits are d.
C6_CenturyRollover ==
    (pc = "term_done" /\ term_src.sy >= 0 /\ term_src.ek = "two") =>
        LET Y == term_src.sy
            d == term_src.ev
            c == (Y \div 100) * 100 + d
            e == IF c < Y THEN c + 100 ELSE c
        IN  /\ term_start = Some(Y)
            /\ term_end = Some(e)
            /\ \A y \in Y..(Y + 99) : (y % 100 = d) <=> (y = e)

\* 1897 and '01 gave 1901
C6_Witness ==
    /\ pc = "term_done"
    /\ term = <<"1", "8", "9", "7", EnDash, "'", "0", "1">>
    /\ term_src = [sy |-> 1897, ek |-> "two", ev |-> 1]
    /\ term_end = Some(1901)

=============================================================================
